---------------------------- MODULE Spec2Model ----------------------------
(***************************************************************************)
(* Azure Storage Shared Key signer (src/azure/storage/signer.rs).          *)
(*                                                                         *)
(* A text (Rust String / &str / HeaderValue) is a sequence of characters,  *)
(* each character a one-character TLA+ string, so that "+" of the source   *)
(* (format!, write!, push_str) is \o and equality of texts is equality of  *)
(* sequences.  Two tokens are not single characters: NonUtf8, one byte     *)
(* that is not text, and the digest token produced by base64_hmac_sha256.  *)
(***************************************************************************)
EXTENDS Integers, Sequences, FiniteSets, TLC

VARIABLES
    req,      \* the caller's request (the `req: &mut impl SignableRequest`)
    signer,   \* the Signer: [omit_service_version, time]
    last,     \* what the most recent operation was and what it returned
    calls     \* number of sign / sign_query calls made so far

vars == <<req, signer, last, calls>>

\* Bound on the number of sign / sign_query calls in one behaviour.
MaxCalls == 1

-----------------------------------------------------------------------------
(* Characters and their byte values (ASCII 32..126, in order; the five     *)
(* characters that cannot be written inside a TLA+ string stand as named   *)
(* tokens at their places).                                                *)

NL == "\n"
NonUtf8 == "<ff>"

Printable ==
    << " ", "!", "<quot>", "#", "$", "%", "&", "'", "<lpar>", ")", "<star>", "+", ",", "-",
       ".", "/", "0", "1", "2", "3", "4", "5", "6", "7", "8", "9", ":", ";",
       "<", "=", ">", "?", "@", "A", "B", "C", "D", "E", "F", "G", "H", "I",
       "J", "K", "L", "M", "N", "O", "P", "Q", "R", "S", "T", "U", "V", "W",
       "X", "Y", "Z", "[", "<bsl>", "]", "^", "_", "<bt>", "a", "b", "c", "d", "e",
       "f", "g", "h", "i", "j", "k", "l", "m", "n", "o", "p", "q", "r", "s",
       "t", "u", "v", "w", "x", "y", "z", "{", "|", "}", "~" >>

PrintableSet == {Printable[i] : i \in 1..Len(Printable)}

PrintableCode ==
    [c \in PrintableSet |-> (CHOOSE i \in 1..Len(Printable) : Printable[i] = c) + 31]

\* The byte value of a character; a token that is no ASCII character counts
\* as a byte above them.
CharCode(c) ==
    IF c = NL THEN 10
    ELSE IF c \in PrintableSet THEN PrintableCode[c]
    ELSE 255

CharOfCode(n) == Printable[n - 31]

HexDigits == << "0", "1", "2", "3", "4", "5", "6", "7", "8", "9",
                "A", "B", "C", "D", "E", "F" >>

Digit(n) == HexDigits[n + 1]

TwoDigits(n) == << Digit(n \div 10), Digit(n % 10) >>

RECURSIVE StrLess(_, _)
\* Byte-wise order of Rust's `impl Ord for str`.
StrLess(a, b) ==
    IF b = << >> THEN FALSE
    ELSE IF a = << >> THEN TRUE
    ELSE IF a[1] = b[1] THEN StrLess(Tail(a), Tail(b))
    ELSE CharCode(a[1]) < CharCode(b[1])

\* str::starts_with
StartsWith(s, prefix) ==
    /\ Len(s) >= Len(prefix)
    /\ SubSeq(s, 1, Len(prefix)) = prefix

RECURSIVE Split(_, _)
\* str::split on one character: the pieces between the separators.
Split(s, sep) ==
    IF \A i \in 1..Len(s) : s[i] # sep
    THEN << s >>
    ELSE LET i == CHOOSE k \in 1..Len(s) :
                      s[k] = sep /\ \A j \in 1..(k - 1) : s[j] # sep
         IN  << SubSeq(s, 1, i - 1) >> \o Split(SubSeq(s, i + 1, Len(s)), sep)

RECURSIVE Join(_, _)
\* [T]::join: the pieces with the separator between them.
Join(pieces, sep) ==
    IF pieces = << >> THEN << >>
    ELSE IF Len(pieces) = 1 THEN pieces[1]
    ELSE pieces[1] \o sep \o Join(Tail(pieces), sep)

-----------------------------------------------------------------------------
(* Header names and constants (http::header, crate constants).             *)

AUTHORIZATION == << "a", "u", "t", "h", "o", "r", "i", "z", "a", "t", "i", "o", "n" >>
CONTENT_ENCODING == << "c", "o", "n", "t", "e", "n", "t", "-", "e", "n", "c", "o", "d", "i", "n", "g" >>
CONTENT_LANGUAGE == << "c", "o", "n", "t", "e", "n", "t", "-", "l", "a", "n", "g", "u", "a", "g", "e" >>
CONTENT_LENGTH == << "c", "o", "n", "t", "e", "n", "t", "-", "l", "e", "n", "g", "t", "h" >>
CONTENT_MD5 == << "c", "o", "n", "t", "e", "n", "t", "-", "m", "d", "5" >>
CONTENT_TYPE == << "c", "o", "n", "t", "e", "n", "t", "-", "t", "y", "p", "e" >>
DATE == << "d", "a", "t", "e" >>
IF_MODIFIED_SINCE == << "i", "f", "-", "m", "o", "d", "i", "f", "i", "e", "d", "-", "s", "i", "n", "c", "e" >>
IF_MATCH == << "i", "f", "-", "m", "a", "t", "c", "h" >>
IF_NONE_MATCH == << "i", "f", "-", "n", "o", "n", "e", "-", "m", "a", "t", "c", "h" >>
IF_UNMODIFIED_SINCE == << "i", "f", "-", "u", "n", "m", "o", "d", "i", "f", "i", "e", "d", "-", "s", "i", "n", "c", "e" >>
RANGE == << "r", "a", "n", "g", "e" >>
X_MS_DATE == << "x", "-", "m", "s", "-", "d", "a", "t", "e" >>
X_MS_VERSION == << "x", "-", "m", "s", "-", "v", "e", "r", "s", "i", "o", "n" >>
AZURE_VERSION == << "2", "0", "1", "9", "-", "1", "2", "-", "1", "2" >>

\* Option<T>: None is the empty sequence, Some(x) the one-element sequence.
None == << >>
Some(x) == << x >>

\* Credential::SharedAccessSignature(token) and Credential::SharedKey(ak, sk).
SharedAccessSignature(token) == << "SharedAccessSignature", token >>
SharedKey(ak, sk) == << "SharedKey", ak, sk >>

-----------------------------------------------------------------------------
(* crate::time: a DateTime is [year, month, day, hour, minute, second] in  *)
(* UTC; format_http_date renders it as "Sun, 06 Nov 1994 08:49:37 GMT".    *)

WeekdayNames == << << "S", "u", "n" >>, << "M", "o", "n" >>, << "T", "u", "e" >>,
                   << "W", "e", "d" >>, << "T", "h", "u" >>, << "F", "r", "i" >>,
                   << "S", "a", "t" >> >>

MonthNames == << << "J", "a", "n" >>, << "F", "e", "b" >>, << "M", "a", "r" >>,
                 << "A", "p", "r" >>, << "M", "a", "y" >>, << "J", "u", "n" >>,
                 << "J", "u", "l" >>, << "A", "u", "g" >>, << "S", "e", "p" >>,
                 << "O", "c", "t" >>, << "N", "o", "v" >>, << "D", "e", "c" >> >>

\* Day of the week of a Gregorian date, 0 = Sunday.
Weekday(t) ==
    LET shift == << 0, 3, 2, 5, 0, 3, 5, 1, 4, 6, 2, 4 >>
        y == IF t.month < 3 THEN t.year - 1 ELSE t.year
    IN  (y + (y \div 4) - (y \div 100) + (y \div 400) + shift[t.month] + t.day) % 7

format_http_date(t) ==
    WeekdayNames[Weekday(t) + 1] \o << ",", " " >> \o TwoDigits(t.day) \o << " " >>
        \o MonthNames[t.month] \o << " " >>
        \o TwoDigits(t.year \div 100) \o TwoDigits(t.year % 100) \o << " " >>
        \o TwoDigits(t.hour) \o << ":" >> \o TwoDigits(t.minute) \o << ":" >>
        \o TwoDigits(t.second) \o << " ", "G", "M", "T" >>

-----------------------------------------------------------------------------
(* crate::hash.                                                            *)

Base64Alphabet ==
    << "A", "B", "C", "D", "E", "F", "G", "H", "I", "J", "K", "L", "M", "N", "O", "P",
       "Q", "R", "S", "T", "U", "V", "W", "X", "Y", "Z", "a", "b", "c", "d", "e", "f",
       "g", "h", "i", "j", "k", "l", "m", "n", "o", "p", "q", "r", "s", "t", "u", "v",
       "w", "x", "y", "z", "0", "1", "2", "3", "4", "5", "6", "7", "8", "9", "+", "/" >>

IsBase64Char(c) == \E i \in 1..Len(Base64Alphabet) : Base64Alphabet[i] = c

Base64Value(c) == (CHOOSE i \in 1..Len(Base64Alphabet) : Base64Alphabet[i] = c) - 1

\* Number of trailing "=" of a base64 text.
Base64Padding(s) ==
    IF Len(s) >= 2 /\ s[Len(s)] = "=" /\ s[Len(s) - 1] = "=" THEN 2
    ELSE IF Len(s) >= 1 /\ s[Len(s)] = "=" THEN 1
    ELSE 0

\* Whether a text is standard, padded base64.
Base64Valid(s) ==
    /\ Len(s) % 4 = 0
    /\ \A i \in 1..(Len(s) - Base64Padding(s)) : IsBase64Char(s[i])

RECURSIVE Base64Groups(_)
\* The bytes of the four-character groups of a valid base64 text.
Base64Groups(s) ==
    IF s = << >> THEN << >>
    ELSE LET v(i) == IF s[i] = "=" THEN 0 ELSE Base64Value(s[i])
             n == v(1) * 262144 + v(2) * 4096 + v(3) * 64 + v(4)
             bytes == << n \div 65536, (n \div 256) % 256, n % 256 >>
             keep == 3 - Base64Padding(SubSeq(s, 1, 4))
         IN  SubSeq(bytes, 1, keep) \o Base64Groups(SubSeq(s, 5, Len(s)))

\* base64_decode(content: &str) -> Vec<u8>.  The caller takes the bytes with no
\* `?` (signer.rs:79), so the function has no error value to return: on a text
\* that is not base64 it cannot return and the thread panics.
base64_decode(content) ==
    IF Base64Valid(content)
    THEN [panicked |-> FALSE, bytes |-> Base64Groups(content)]
    ELSE [panicked |-> TRUE, bytes |-> << >>]

\* base64_hmac_sha256(key, content) -> String.  HMAC-SHA256 is taken as an
\* ideal keyed hash: the digest text is one token that names the key and the
\* content it was computed from, so two digests are equal exactly when key and
\* content are.
base64_hmac_sha256(key, content) == << ToString(<< key, content >>) >>

-----------------------------------------------------------------------------
(* crate::request and crate::ctx: the request, and the Signing Context     *)
(* projected from it.                                                      *)
(*   request: [method, path, query, headers]; query is the query string as *)
(*            it stands in the URI, headers a function name -> value.      *)
(*   context: [method, path, query, headers]; query is the mapping         *)
(*            parameter -> value, kept as a sequence of <<name, value>>    *)
(*            with distinct names in insertion order.                      *)

\* Whether a header value can be read as text (HeaderValue::to_str).
IsText(v) == \A i \in 1..Len(v) : v[i] # NonUtf8

\* Whether a text can become a header value (`.parse::<HeaderValue>()`):
\* no control characters.
HeaderValueParses(v) == \A i \in 1..Len(v) : CharCode(v[i]) >= 32

IsHexDigit(c) ==
    \/ \E i \in 1..Len(HexDigits) : HexDigits[i] = c
    \/ c \in {"a", "b", "c", "d", "e", "f"}

HexValue(c) ==
    IF \E i \in 1..Len(HexDigits) : HexDigits[i] = c
    THEN (CHOOSE i \in 1..Len(HexDigits) : HexDigits[i] = c) - 1
    ELSE CASE c = "a" -> 10 [] c = "b" -> 11 [] c = "c" -> 12
           [] c = "d" -> 13 [] c = "e" -> 14 [] c = "f" -> 15

RECURSIVE PercentDecode(_)
\* Percent-decoding of one query name or value.
PercentDecode(s) ==
    IF s = << >> THEN << >>
    ELSE IF s[1] = "%" /\ Len(s) >= 3 /\ IsHexDigit(s[2]) /\ IsHexDigit(s[3])
         THEN << CharOfCode(16 * HexValue(s[2]) + HexValue(s[3])) >>
                  \o PercentDecode(SubSeq(s, 4, Len(s)))
         ELSE << s[1] >> \o PercentDecode(Tail(s))

\* The characters a query string carries unencoded.
QuerySafe(c) ==
    \/ IsBase64Char(c) /\ c \notin {"+", "/"}
    \/ c \in {"-", ".", "_", "~", ":"}

RECURSIVE PercentEncode(_)
\* Percent-encoding of one query name or value.
PercentEncode(s) ==
    IF s = << >> THEN << >>
    ELSE (IF QuerySafe(s[1]) THEN << s[1] >>
          ELSE << "%", Digit(CharCode(s[1]) \div 16), Digit(CharCode(s[1]) % 16) >>)
         \o PercentEncode(Tail(s))

\* Set one parameter of a query mapping: overwrite on a name collision, else
\* append.
QueryPut(query, k, v) ==
    IF \E i \in 1..Len(query) : query[i][1] = k
    THEN [i \in 1..Len(query) |-> IF query[i][1] = k THEN << k, v >> ELSE query[i]]
    ELSE Append(query, << k, v >>)

RECURSIVE QueryMerge(_, _)
\* Merge the `name=value` pieces of a query string into a query mapping.
QueryMerge(query, pieces) ==
    IF pieces = << >> THEN query
    ELSE IF pieces[1] = << >> THEN QueryMerge(query, Tail(pieces))
    ELSE LET kv == Split(pieces[1], "=")
             k == PercentDecode(kv[1])
             v == PercentDecode(Join(Tail(kv), << "=" >>))
         IN  QueryMerge(QueryPut(query, k, v), Tail(pieces))

\* SigningContext::query_append(&mut self, query: &str)
query_append(ctx, token) ==
    [ctx EXCEPT !.query = QueryMerge(ctx.query, Split(token, "&"))]

\* The query string of a query mapping, as apply writes it into the URI.
QueryString(query) ==
    Join([i \in 1..Len(query) |->
              PercentEncode(query[i][1]) \o << "=" >> \o PercentEncode(query[i][2])],
         << "&" >>)

\* SignableRequest::build(&mut self) -> Result<SigningContext>
RequestBuild(r) ==
    IF \E n \in DOMAIN r.headers : ~IsText(r.headers[n])
    THEN [ok |-> FALSE, err |-> "MalformedRequest"]
    ELSE [ok |-> TRUE,
          ctx |-> [method |-> r.method, path |-> r.path,
                   query |-> QueryMerge(<< >>, Split(r.query, "&")),
                   headers |-> r.headers]]

\* SignableRequest::apply(&mut self, ctx: SigningContext) -> Result<()>
RequestApply(r, ctx) ==
    [r EXCEPT !.headers = ctx.headers, !.query = QueryString(ctx.query)]

\* HeaderMap::insert: set the one value of a header.
HeaderInsert(headers, name, value) ==
    [n \in (DOMAIN headers) \cup {name} |-> IF n = name THEN value ELSE headers[n]]

\* SigningContext::header_get_or_default(&self, key) -> Result<&str>.  Every
\* value of a built context is text, so the Err of the source does not arise.
header_get_or_default(ctx, name) ==
    IF name \in DOMAIN ctx.headers THEN ctx.headers[name] ELSE << >>

\* SigningContext::header_to_vec_with_prefix(&self, prefix) -> Vec<(String, String)>
\* (the map's iteration order is unspecified: the pairs, as a set).
header_to_vec_with_prefix(ctx, prefix) ==
    {<< n, ctx.headers[n] >> : n \in {m \in DOMAIN ctx.headers : StartsWith(m, prefix)}}

RECURSIVE SortByName(_)
\* The pairs of a set in ascending order of name.
SortByName(pairs) ==
    IF pairs = {} THEN << >>
    ELSE LET least == CHOOSE p \in pairs :
                          \A q \in pairs : q = p \/ StrLess(p[1], q[1])
         IN  << least >> \o SortByName(pairs \ {least})

\* Render sorted pairs as name, sep, value lines joined by `join`.
PairsToString(sorted, sep, join) ==
    Join([i \in 1..Len(sorted) |-> sorted[i][1] \o sep \o sorted[i][2]], join)

\* SigningContext::header_to_string(headers, sep, join) -> String
header_to_string(headers, sep, join) ==
    PairsToString(SortByName(headers), sep, join)

\* SigningContext::query_to_string(query, sep, join) -> String
query_to_string(query, sep, join) ==
    PairsToString(SortByName({query[i] : i \in 1..Len(query)}), sep, join)

-----------------------------------------------------------------------------
(* signer.rs: the canonicalizer.                                           *)

\* writeln!(&mut s, "{}", x)
writeln(s, x) == s \o x \o << NL >>

\* insert_date keeping the x-ms-date a request came with.
insert_date_if_absent(ctx, now) ==
    IF X_MS_DATE \in DOMAIN ctx.headers THEN ctx
    ELSE [ctx EXCEPT !.headers = HeaderInsert(@, X_MS_DATE, format_http_date(now))]

\* ctx.headers.insert(X_MS_DATE, format_http_date(now).parse()?)
insert_date(ctx, now) ==
    [ctx EXCEPT !.headers = HeaderInsert(@, X_MS_DATE, format_http_date(now))]

\* if !omit_service_version { ctx.headers.insert(X_MS_VERSION, AZURE_VERSION...) }
insert_service_version(ctx, omit_service_version) ==
    IF ~omit_service_version
    THEN [ctx EXCEPT !.headers = HeaderInsert(@, X_MS_VERSION, AZURE_VERSION)]
    ELSE ctx

\* canonical_headers with the prefix cut short.
canonical_headers_short_prefix(ctx) ==
    [ctx |-> ctx,
     s |-> header_to_string(header_to_vec_with_prefix(ctx, << "x", "-", "m" >>),
                            << ":" >>, << NL >>)]

\* The canonical header block of a context, with the context.
canonical_headers(ctx) ==
    [ctx |-> ctx,
     s |-> header_to_string(
               header_to_vec_with_prefix(ctx, << "x", "-", "m", "s", "-" >>),
               << ":" >>, << NL >>)]

\* fn canonicalize_header(ctx, now, omit_service_version) -> Result<String>
\* Returns the string and the context as the call leaves it.
canonicalize_header(ctx, now, omit_service_version) ==
    canonical_headers(insert_service_version(insert_date(ctx, now), omit_service_version))

\* fn canonicalize_resource(ctx, ak) -> String
canonicalize_resource(ctx, ak) ==
    IF ctx.query = << >>
    THEN << "/" >> \o ak \o ctx.path
    ELSE << "/" >> \o ak \o ctx.path \o << NL >>
             \o query_to_string(ctx.query, << ":" >>, << NL >>)

\* content_length_line without the "0" case.
content_length_line_verbatim(ctx) == header_get_or_default(ctx, CONTENT_LENGTH)

\* The Content-Length line: `.map(|v| if v == "0" { "" } else { v })`
content_length_line(ctx) ==
    LET v == header_get_or_default(ctx, CONTENT_LENGTH)
    IN  IF v = << "0" >> THEN << >> ELSE v

\* fixed_lines with the Range line left empty.
fixed_lines_no_range(ctx) ==
    LET s0  == writeln(<< >>, ctx.method)
        s1  == writeln(s0, header_get_or_default(ctx, CONTENT_ENCODING))
        s2  == writeln(s1, header_get_or_default(ctx, CONTENT_LANGUAGE))
        s3  == writeln(s2, content_length_line(ctx))
        s4  == writeln(s3, header_get_or_default(ctx, CONTENT_MD5))
        s5  == writeln(s4, header_get_or_default(ctx, CONTENT_TYPE))
        s6  == writeln(s5, header_get_or_default(ctx, DATE))
        s7  == writeln(s6, header_get_or_default(ctx, IF_MODIFIED_SINCE))
        s8  == writeln(s7, header_get_or_default(ctx, IF_MATCH))
        s9  == writeln(s8, header_get_or_default(ctx, IF_NONE_MATCH))
        s10 == writeln(s9, header_get_or_default(ctx, IF_UNMODIFIED_SINCE))
        s11 == writeln(s10, << >>)
    IN  s11

\* fixed_lines with If-Match before If-Modified-Since.
fixed_lines_swapped(ctx) ==
    LET s0  == writeln(<< >>, ctx.method)
        s1  == writeln(s0, header_get_or_default(ctx, CONTENT_ENCODING))
        s2  == writeln(s1, header_get_or_default(ctx, CONTENT_LANGUAGE))
        s3  == writeln(s2, content_length_line(ctx))
        s4  == writeln(s3, header_get_or_default(ctx, CONTENT_MD5))
        s5  == writeln(s4, header_get_or_default(ctx, CONTENT_TYPE))
        s6  == writeln(s5, header_get_or_default(ctx, DATE))
        s7  == writeln(s6, header_get_or_default(ctx, IF_MATCH))
        s8  == writeln(s7, header_get_or_default(ctx, IF_MODIFIED_SINCE))
        s9  == writeln(s8, header_get_or_default(ctx, IF_NONE_MATCH))
        s10 == writeln(s9, header_get_or_default(ctx, IF_UNMODIFIED_SINCE))
        s11 == writeln(s10, header_get_or_default(ctx, RANGE))
    IN  s11

\* The method line and the eleven header lines of the string to sign.
fixed_lines(ctx) ==
    LET s0  == writeln(<< >>, ctx.method)
        s1  == writeln(s0, header_get_or_default(ctx, CONTENT_ENCODING))
        s2  == writeln(s1, header_get_or_default(ctx, CONTENT_LANGUAGE))
        s3  == writeln(s2, content_length_line(ctx))
        s4  == writeln(s3, header_get_or_default(ctx, CONTENT_MD5))
        s5  == writeln(s4, header_get_or_default(ctx, CONTENT_TYPE))
        s6  == writeln(s5, header_get_or_default(ctx, DATE))
        s7  == writeln(s6, header_get_or_default(ctx, IF_MODIFIED_SINCE))
        s8  == writeln(s7, header_get_or_default(ctx, IF_MATCH))
        s9  == writeln(s8, header_get_or_default(ctx, IF_NONE_MATCH))
        s10 == writeln(s9, header_get_or_default(ctx, IF_UNMODIFIED_SINCE))
        s11 == writeln(s10, header_get_or_default(ctx, RANGE))
    IN  s11

\* The canonical header block as a line, then the canonical resource.
canonical_lines(s, ch, ak) ==
    [ctx |-> ch.ctx, s |-> writeln(s, ch.s) \o canonicalize_resource(ch.ctx, ak)]

\* fn string_to_sign(ctx, ak, now, omit_service_version) -> Result<String>
\* Returns the string and the context as the call leaves it.
string_to_sign(ctx, ak, now, omit_service_version) ==
    canonical_lines(fixed_lines(ctx),
                    canonicalize_header(ctx, now, omit_service_version), ak)

-----------------------------------------------------------------------------
(* signer.rs: the Signer.                                                  *)

\* What build returns.  ctx is the Signing Context when build returned (on
\* Ok the value returned, otherwise the value dropped; None if the request
\* could not be projected); now and sts are the time captured and the
\* string to sign, when the call got to them.
BuildResult(status, err, ctx, now, sts) ==
    [status |-> status, err |-> err, ctx |-> ctx, now |-> now, sts |-> sts]

\* ctx.headers.insert(AUTHORIZATION, format!("SharedKey {ak}:{signature}").parse()?)
insert_authorization(signed, now, value) ==
    IF ~HeaderValueParses(value)
    THEN BuildResult("Err", "InvalidHeaderValue", Some(signed.ctx), Some(now),
                     Some(signed.s))
    ELSE BuildResult("Ok", "",
                     Some([signed.ctx EXCEPT
                               !.headers = HeaderInsert(@, AUTHORIZATION, value)]),
                     Some(now), Some(signed.s))

\* base64_hmac_sha256(&base64_decode(sk), string_to_sign.as_bytes()), and the
\* header made of it; `key` is what base64_decode(sk) came to.
sign_with_key(ak, key, signed, now) ==
    IF key.panicked
    THEN BuildResult("Panic", "", Some(signed.ctx), Some(now), Some(signed.s))
    ELSE insert_authorization(
             signed, now,
             << "S", "h", "a", "r", "e", "d", "K", "e", "y", " " >> \o ak \o << ":" >>
                 \o base64_hmac_sha256(key.bytes, signed.s))

\* The SigningMethod::Header arm of build.
build_header(self, ctx, ak, sk, now) ==
    sign_with_key(ak, base64_decode(sk),
                  string_to_sign(ctx, ak, now, self.omit_service_version), now)

\* build_match with the token arm under header signing stamping the date, as
\* the shared-key arm does.
build_match_token_dated(self, ctx, method, cred, clock) ==
    IF cred[1] = "SharedAccessSignature"
    THEN BuildResult("Ok", "",
                     Some(IF method = "Header"
                          THEN insert_date(query_append(ctx, cred[2]), clock)
                          ELSE query_append(ctx, cred[2])),
                     None, None)
    ELSE IF method = "Query"
    THEN BuildResult("Err", "UnsupportedSigningMethod", Some(ctx), None, None)
    ELSE build_header(self, ctx, cred[2], cred[3],
                      IF self.time = None THEN clock ELSE self.time[1])

\* build_match with the SigningMethod::Query arm lost: a shared key signs the
\* headers whatever the method.
build_match_any_method(self, ctx, method, cred, clock) ==
    IF cred[1] = "SharedAccessSignature"
    THEN BuildResult("Ok", "", Some(query_append(ctx, cred[2])), None, None)
    ELSE build_header(self, ctx, cred[2], cred[3],
                      IF self.time = None THEN clock ELSE self.time[1])

\* The `match cred` of build, on the context `req.build()?` gave.
build_match(self, ctx, method, cred, clock) ==
    IF cred[1] = "SharedAccessSignature"
    THEN BuildResult("Ok", "", Some(query_append(ctx, cred[2])), None, None)
    ELSE IF method = "Query"
    THEN \* anyhow!("SAS token is required for query signing")
         BuildResult("Err", "UnsupportedSigningMethod", Some(ctx), None, None)
    ELSE build_header(self, ctx, cred[2], cred[3],
                      IF self.time = None THEN clock ELSE self.time[1])

\* The `?` of `req.build()?`.
build_try(self, built, method, cred, clock) ==
    IF ~built.ok
    THEN BuildResult("Err", built.err, None, None, None)
    ELSE build_match(self, built.ctx, method, cred, clock)

\* fn build(&self, req, method, cred) -> Result<SigningContext>
\* `clock` is what time::now() returns should the call ask for it.
build(self, r, method, cred, clock) ==
    build_try(self, RequestBuild(r), method, cred, clock)

\* apply_if_built writing back whatever context build had in hand, error or not.
apply_always(r, b) ==
    IF b.ctx # None THEN RequestApply(r, b.ctx[1]) ELSE r

\* The `?` after build, then req.apply(ctx): the request a call leaves.
apply_if_built(r, b) ==
    IF b.status = "Ok" THEN RequestApply(r, b.ctx[1]) ELSE r

\* The request and the result a call leaves.
Outcome(r, b) == [req |-> apply_if_built(r, b), result |-> b]

\* pub fn sign(&self, req, cred) -> Result<()>
sign(self, r, cred, clock) ==
    Outcome(r, build(self, r, "Header", cred, clock))

\* pub fn sign_query(&self, req, cred) -> Result<()>
sign_query(self, r, cred, clock) ==
    Outcome(r, build(self, r, "Query", cred, clock))

-----------------------------------------------------------------------------
(* The inputs the caller supplies.                                         *)

GET == << "G", "E", "T" >>
PUT == << "P", "U", "T" >>

\* (method, path, query string) of the requests.
RequestLines ==
    { << GET, << "/", "c", "/", "b" >>, << >> >>,
      << PUT, << "/", "c" >>, << "s", "v", "=", "0", "&", "a", "=", "1" >> >> }

\* The eleven headers of the fixed part of the string to sign, in its order.
FixedHeaders ==
    << CONTENT_ENCODING, CONTENT_LANGUAGE, CONTENT_LENGTH, CONTENT_MD5, CONTENT_TYPE,
       DATE, IF_MODIFIED_SINCE, IF_MATCH, IF_NONE_MATCH, IF_UNMODIFIED_SINCE, RANGE >>

\* A value for each of them, all different.
FixedValues ==
    << << "g", "z" >>, << "e", "n" >>, << "1", "2" >>, << "m", "d" >>, << "t", "x" >>,
       << "d", "0" >>, << "d", "1" >>, << "e", "1" >>, << "e", "2" >>, << "d", "2" >>,
       << "0", "-", "9" >> >>

X_MS_A == << "x", "-", "m", "s", "-", "a" >>
X_MS_META_K == << "x", "-", "m", "s", "-", "m", "e", "t", "a", "-", "k" >>
X_MT_A == << "x", "-", "m", "t", "-", "a" >>
X_M == << "x", "-", "m" >>

NoHeaders == [n \in {} |-> << >>]

OneHeader(name, value) == [n \in {name} |-> value]

\* The header maps of the requests.
HeaderMaps ==
    {NoHeaders}
    \cup {OneHeader(FixedHeaders[i], FixedValues[i]) :
              i \in {i \in 1..Len(FixedHeaders) :
                         FixedHeaders[i] \in {CONTENT_LENGTH, IF_MATCH, RANGE}}}
    \cup {[n \in {FixedHeaders[i] : i \in 1..Len(FixedHeaders)} |->
              FixedValues[CHOOSE i \in 1..Len(FixedHeaders) : FixedHeaders[i] = n]]}
    \cup {OneHeader(CONTENT_LENGTH, << "0" >>), OneHeader(CONTENT_LENGTH, << >>),
          OneHeader(CONTENT_TYPE, << >>),
          OneHeader(CONTENT_TYPE, << NonUtf8 >>),
          OneHeader(X_MS_DATE, << "o", "l", "d" >>),
          OneHeader(X_MS_VERSION, << "2", "0", "0", "0" >>),
          OneHeader(X_MS_A, << "v" >>),
          OneHeader(AUTHORIZATION, << "B", "a", "s", "i", "c" >>),
          [n \in {X_MS_META_K, X_MS_A, X_MT_A, X_M} |->
              IF n = X_MS_A THEN << "w", ":", "1" >> ELSE << "k" >>]}

Requests ==
    {[method |-> l[1], path |-> l[2], query |-> l[3], headers |-> h] :
         l \in RequestLines, h \in HeaderMaps}

\* Account names: a usual one, and one a header value cannot carry.
AccountNames == { << "a", "c", "c" >>, << "a", NL, "c" >> }

\* Account keys: base64 of "abc", and a text that is not base64.
GoodKey == << "Y", "W", "J", "j" >>
BadKey == << "!", "!", "!", "!" >>

\* Delegation tokens: a well-formed one, one naming a parameter twice, one
\* whose escape is not in the form the encoder writes.
TokenPlain == << "s", "v", "=", "1", "&", "s", "i", "g", "=", "x", "%", "2", "B", "y" >>
TokenTwice == << "s", "v", "=", "1", "&", "s", "v", "=", "2" >>
TokenLower == << "s", "i", "g", "=", "%", "2", "b" >>

Credentials ==
    {SharedAccessSignature(t) : t \in {TokenPlain, TokenTwice, TokenLower}}
    \cup {SharedKey(ak, GoodKey) : ak \in AccountNames}
    \cup {SharedKey(<< "a", "c", "c" >>, BadKey)}

\* Instants: what the clock may show, and the one a test fixes.
Times ==
    {[year |-> 1994, month |-> 11, day |-> 6, hour |-> 8, minute |-> 49, second |-> 37],
     [year |-> 2022, month |-> 3, day |-> 1, hour |-> 8, minute |-> 12, second |-> 34]}

TestTimes ==
    {[year |-> 2000, month |-> 2, day |-> 29, hour |-> 23, minute |-> 59, second |-> 0]}

-----------------------------------------------------------------------------
(* The state machine: a caller holding one request and one Signer.         *)

\* Signer::new() and a request not yet signed.
Init ==
    /\ req \in Requests
    /\ signer = [omit_service_version |-> FALSE, time |-> None]
    /\ last = [op |-> "new"]
    /\ calls = 0

\* pub fn omit_service_version(mut self) -> Self
OmitServiceVersion ==
    /\ signer' = [signer EXCEPT !.omit_service_version = TRUE]
    /\ UNCHANGED << req, last, calls >>

\* pub fn time(&mut self, time: DateTime) -> &mut Self
Time(t) ==
    /\ signer' = [signer EXCEPT !.time = Some(t)]
    /\ UNCHANGED << req, last, calls >>

\* What a call leaves to be observed: the operation, its arguments, the
\* request before it and what build returned.
Observed(op, cred, out) ==
    [op |-> op, self |-> signer, cred |-> cred, before |-> req,
     status |-> out.result.status, err |-> out.result.err,
     now |-> out.result.now, sts |-> out.result.sts]

\* The caller's state after a call that left `out`.
Called(op, cred, out) ==
    /\ req' = out.req
    /\ last' = Observed(op, cred, out)
    /\ calls' = calls + 1
    /\ UNCHANGED signer

\* signer.sign(&mut req, &cred)
Sign(cred, clock) ==
    /\ calls < MaxCalls
    /\ Called("sign", cred, sign(signer, req, cred, clock))

\* signer.sign_query(&mut req, &cred)
SignQuery(cred, clock) ==
    /\ calls < MaxCalls
    /\ Called("sign_query", cred, sign_query(signer, req, cred, clock))

Next ==
    \/ OmitServiceVersion
    \/ \E t \in TestTimes : Time(t)
    \/ \E cred \in Credentials, clock \in Times : Sign(cred, clock)
    \/ \E cred \in Credentials, clock \in Times : SignQuery(cred, clock)

Spec == Init /\ [][Next]_vars

-----------------------------------------------------------------------------
(* Properties.  `last` is the most recent call: its operation, the Signer  *)
(* and credential it was given, the request before it, and its result;     *)
(* `req` is the request after it.                                          *)

WasCall == last.op \in {"sign", "sign_query"}
WithSharedKey == WasCall /\ last.cred[1] = "SharedKey"
WithToken == WasCall /\ last.cred[1] = "SharedAccessSignature"
Returned(err) == last.status = "Err" /\ last.err = err
Buildable(r) == RequestBuild(r).ok

\* C1 as stated: for every request and every signer configuration, sign_query
\* with a SharedKey credential returns UnsupportedSigningMethod, and sign with
\* a SharedKey credential never returns that error.
C1_Stated ==
    WithSharedKey =>
        /\ last.op = "sign_query" => Returned("UnsupportedSigningMethod")
        /\ last.op = "sign" => ~Returned("UnsupportedSigningMethod")

\* C1 amended: for every request from which a Signing Context can be built
\* and every signer configuration, sign_query with a SharedKey credential
\* returns UnsupportedSigningMethod; sign with a SharedKey credential never
\* returns that error, whatever the request.
C1_SharedKeyQueryUnsupported ==
    WithSharedKey =>
        /\ last.op = "sign_query" /\ Buildable(last.before)
               => Returned("UnsupportedSigningMethod")
        /\ last.op = "sign" => ~Returned("UnsupportedSigningMethod")

C1_Witness ==
    /\ WithSharedKey
    /\ last.op = "sign_query"
    /\ Returned("UnsupportedSigningMethod")
    /\ last.self.omit_service_version

ParamsOf(query) ==
    LET q == QueryMerge(<< >>, Split(query, "&"))
    IN  {q[i] : i \in 1..Len(q)}

NamesOf(params) == {p[1] : p \in params}

\* A token that names no parameter twice, writes each as name=value, and
\* escapes as the encoder does.
WellFormedToken(token) ==
    LET pieces == Split(token, "&")
    IN  /\ \A i \in 1..Len(pieces) :
               /\ Len(Split(pieces[i], "=")) = 2
               /\ \A k \in 1..2 :
                      PercentEncode(PercentDecode(Split(pieces[i], "=")[k]))
                          = Split(pieces[i], "=")[k]
        /\ \A i, j \in 1..Len(pieces) :
               i # j => Split(pieces[i], "=")[1] # Split(pieces[j], "=")[1]

\* sign and sign_query leave the same request and the same result.
SameEitherWay ==
    \A clock \in Times :
        sign(last.self, last.before, last.cred, clock)
            = sign_query(last.self, last.before, last.cred, clock)

\* The request's parameters after the call are the token's, and those of the
\* request before the call that the token does not name.
TokenMerged ==
    ParamsOf(req.query) =
        ParamsOf(last.cred[2])
            \cup {p \in ParamsOf(last.before.query) :
                      p[1] \notin NamesOf(ParamsOf(last.cred[2]))}

\* Nothing but the query changed, and nothing was hashed.
OnlyQueryChanged ==
    /\ req.method = last.before.method
    /\ req.path = last.before.path
    /\ req.headers = last.before.headers
    /\ last.now = None
    /\ last.sts = None

-----------------------------------------------------------------------------
(* Shared-key header signing.                                              *)

SignedWithKey == WithSharedKey /\ last.op = "sign" /\ last.status = "Ok"

\* The string to sign of the last call, and its lines.
Sts == last.sts[1]
StsLines == Split(Sts, NL)

\* C4: after a successful sign with SharedKey(account_id, secret) the request
\* carries Authorization = "SharedKey " + account_id + ":" +
\* base64(HMAC-SHA256(decoded secret, string to sign)); x-ms-date is the HTTP
\* date of the one time captured for the call (the Signer's fixed time if it
\* has one, else the clock's), the same that stands in the string to sign,
\* whatever x-ms-date the request had; and unless the omit-version flag is
\* set, x-ms-version is the version constant.
C4_SharedKeyHeaders ==
    SignedWithKey =>
        /\ AUTHORIZATION \in DOMAIN req.headers
        /\ req.headers[AUTHORIZATION] =
               << "S", "h", "a", "r", "e", "d", "K", "e", "y", " " >> \o last.cred[2]
                   \o << ":" >> \o base64_hmac_sha256(Base64Groups(last.cred[3]), Sts)
        /\ last.now # None
        /\ IF last.self.time = None THEN last.now[1] \in Times
           ELSE last.now = last.self.time
        /\ X_MS_DATE \in DOMAIN req.headers
        /\ req.headers[X_MS_DATE] = format_http_date(last.now[1])
        /\ \E i \in 1..Len(StsLines) :
               StsLines[i] = X_MS_DATE \o << ":" >> \o format_http_date(last.now[1])
        /\ ~last.self.omit_service_version =>
               /\ X_MS_VERSION \in DOMAIN req.headers
               /\ req.headers[X_MS_VERSION] = AZURE_VERSION

\* A request that came with an x-ms-date of its own, signed at a fixed time.
C4_Witness ==
    /\ SignedWithKey
    /\ X_MS_DATE \in DOMAIN last.before.headers
    /\ last.self.time # None
    /\ req.headers[X_MS_DATE] # last.before.headers[X_MS_DATE]

\* The line a fixed header has in the string to sign.
FixedLine(headers, i) ==
    IF FixedHeaders[i] \notin DOMAIN headers THEN << >>
    ELSE IF FixedHeaders[i] = CONTENT_LENGTH /\ headers[FixedHeaders[i]] = << "0" >>
         THEN << >>
         ELSE headers[FixedHeaders[i]]

\* C5: the string to sign is the method and a newline, then the eleven header
\* lines in the order Content-Encoding, Content-Language, Content-Length,
\* Content-MD5, Content-Type, Date, If-Modified-Since, If-Match,
\* If-None-Match, If-Unmodified-Since, Range, each there (empty when the header
\* is absent) and each followed by a newline, then the canonical header block
\* and a newline, then the canonical resource with no newline after it.
C5_StringToSignLayout ==
    WithSharedKey /\ last.sts # None =>
        LET block == canonicalize_header(RequestBuild(last.before).ctx, last.now[1],
                                         last.self.omit_service_version)
        IN  /\ Len(FixedHeaders) = 11
            /\ Sts = Join(<< last.before.method >>
                              \o [i \in 1..Len(FixedHeaders) |->
                                      FixedLine(last.before.headers, i)]
                              \o << block.s,
                                    canonicalize_resource(block.ctx, last.cred[2]) >>,
                          << NL >>)
            /\ Sts[Len(Sts)] # NL

\* All eleven headers present, and a query.
C5_Witness ==
    /\ SignedWithKey
    /\ \A i \in 1..Len(FixedHeaders) : FixedHeaders[i] \in DOMAIN last.before.headers
    /\ last.before.query # << >>

\* The request that differs from r only in Content-Length: 0 against none.
ContentLengthTwin(r) ==
    IF CONTENT_LENGTH \notin DOMAIN r.headers
    THEN [r EXCEPT !.headers = HeaderInsert(@, CONTENT_LENGTH, << "0" >>)]
    ELSE [r EXCEPT !.headers = [n \in (DOMAIN @) \ {CONTENT_LENGTH} |-> @[n]]]

\* C6: a request with Content-Length: 0 and the same request with no
\* Content-Length have the same (empty) Content-Length line, the same string
\* to sign and the same signature under the same credential and time; any
\* other Content-Length value stands on that line as it is.
C6_ContentLengthZero ==
    WithSharedKey /\ last.sts # None =>
        IF \/ CONTENT_LENGTH \notin DOMAIN last.before.headers
           \/ last.before.headers[CONTENT_LENGTH] = << "0" >>
        THEN LET twin == sign(last.self, ContentLengthTwin(last.before), last.cred,
                              last.now[1])
             IN  /\ StsLines[4] = << >>
                 /\ twin.result.sts = last.sts
                 /\ twin.result.status = last.status
                 /\ last.status = "Ok" =>
                        twin.req.headers[AUTHORIZATION] = req.headers[AUTHORIZATION]
        ELSE StsLines[4] = last.before.headers[CONTENT_LENGTH]

C6_Witness ==
    /\ SignedWithKey
    /\ CONTENT_LENGTH \in DOMAIN last.before.headers
    /\ last.before.headers[CONTENT_LENGTH] = << "0" >>
    /\ StsLines[4] = << >>

\* The x-ms- headers of a header map.
VendorNames(headers) ==
    {n \in DOMAIN headers : StartsWith(n, << "x", "-", "m", "s", "-" >>)}

\* The lines of the canonical header block within the string to sign.
BlockLines == SubSeq(StsLines, 13, 12 + Cardinality(VendorNames(req.headers)))

NameOfLine(line) == Split(line, ":")[1]

\* C7: the canonical header block holds exactly the headers whose name starts
\* with x-ms- (the date header among them, and the version header unless
\* omitted), one name:value line each, joined by newlines with none after the
\* last (the resource line follows), the names in strictly ascending order.
C7_CanonicalHeaders ==
    SignedWithKey =>
        /\ X_MS_DATE \in VendorNames(req.headers)
        /\ ~last.self.omit_service_version => X_MS_VERSION \in VendorNames(req.headers)
        /\ Len(StsLines) >= 13 + Cardinality(VendorNames(req.headers))
        /\ {BlockLines[i] : i \in 1..Len(BlockLines)} =
               {n \o << ":" >> \o req.headers[n] : n \in VendorNames(req.headers)}
        /\ \A i \in 1..(Len(BlockLines) - 1) :
               StrLess(NameOfLine(BlockLines[i]), NameOfLine(BlockLines[i + 1]))
        /\ StsLines[13 + Cardinality(VendorNames(req.headers))] =
               << "/" >> \o last.cred[2] \o last.before.path

\* A request with x-ms- headers of its own beside headers that only look alike.
C7_Witness ==
    /\ SignedWithKey
    /\ {X_MS_META_K, X_MS_A, X_MT_A, X_M} \subseteq DOMAIN last.before.headers
    /\ Len(BlockLines) = 4

\* C8 as stated: with the omit-version flag set, after sign with a SharedKey
\* credential x-ms-version is neither in the canonical header block nor in
\* the request's headers, for every request, also one that came with an
\* x-ms-version of its own; with the flag clear it is in both, with the
\* version constant.
C8_Stated ==
    SignedWithKey =>
        IF last.self.omit_service_version
        THEN /\ X_MS_VERSION \notin DOMAIN req.headers
             /\ \A i \in 1..Len(StsLines) :
                    ~StartsWith(StsLines[i], X_MS_VERSION \o << ":" >>)
        ELSE /\ X_MS_VERSION \in DOMAIN req.headers
             /\ req.headers[X_MS_VERSION] = AZURE_VERSION
             /\ \E i \in 1..Len(StsLines) :
                    StsLines[i] = X_MS_VERSION \o << ":" >> \o AZURE_VERSION

-----------------------------------------------------------------------------
(* Sensitivity of the string to sign: requests one field apart.            *)

\* The string to sign of request r under the last call's credential, time and
\* Signer.
StsOf(r) ==
    string_to_sign(RequestBuild(r).ctx, last.cred[2], last.now[1],
                   last.self.omit_service_version).s

\* Header names and values, methods, paths and parameters to change to.
SomeNames ==
    {FixedHeaders[i] : i \in 1..Len(FixedHeaders)} \cup {X_MS_DATE, X_MS_VERSION, X_MS_A}
SomeValues == {None, Some(<< >>), Some(<< "0" >>), Some(<< "w", ":", "1" >>)}
SomeMethods == {GET, PUT}
SomePaths == { << "/", "c" >>, << "/", "c", "/", "b" >> }
SomeParams == { << "a" >>, << "s", "v" >>, << "z" >> }
SomeParamValues == {None, Some(<< "0" >>), Some(<< "1" >>)}

\* Request r with header n set to a value, or (None) taken away.
WithHeader(r, n, v) ==
    IF v = None
    THEN [r EXCEPT !.headers = [m \in (DOMAIN @) \ {n} |-> @[m]]]
    ELSE [r EXCEPT !.headers = HeaderInsert(@, n, v[1])]

\* Request r with query parameter k set to a value, or (None) taken away.
WithParam(r, k, v) ==
    IF v = None
    THEN [r EXCEPT !.query =
              QueryString(SelectSeq(QueryMerge(<< >>, Split(@, "&")),
                                    LAMBDA p : p[1] # k))]
    ELSE [r EXCEPT !.query =
              QueryString(QueryPut(QueryMerge(<< >>, Split(@, "&")), k, v[1]))]

\* What a header reads as in the fixed part of the string to sign.
ReadAs(headers, n) ==
    IF n \notin DOMAIN headers THEN << >>
    ELSE IF n = CONTENT_LENGTH /\ headers[n] = << "0" >> THEN << >>
    ELSE headers[n]

\* The one-header changes the string to sign does not see: a fixed header
\* that reads the same (absent as empty, and for Content-Length "0" as empty),
\* and the headers the signer writes itself (x-ms-date, and x-ms-version when
\* it is not omitted).
Unseen(r, r2, n) ==
    \/ /\ \E i \in 1..Len(FixedHeaders) : FixedHeaders[i] = n
       /\ ReadAs(r.headers, n) = ReadAs(r2.headers, n)
    \/ n = X_MS_DATE
    \/ n = X_MS_VERSION /\ ~last.self.omit_service_version

\* Every request one header apart from r satisfies P(r2, n), n the header.
ForHeaderChanges(r, P(_, _)) ==
    \A n \in SomeNames, v \in SomeValues :
        WithHeader(r, n, v).headers # r.headers => P(WithHeader(r, n, v), n)

\* Every request apart from r in the method, in the path or in one query
\* parameter (changed, added or taken away) satisfies P(r2).
ForLineChanges(r, P(_)) ==
    /\ \A m \in SomeMethods : m # r.method => P([r EXCEPT !.method = m])
    /\ \A p \in SomePaths : p # r.path => P([r EXCEPT !.path = p])
    /\ \A k \in SomeParams, v \in SomeParamValues :
           ParamsOf(WithParam(r, k, v).query) # ParamsOf(r.query)
               => P(WithParam(r, k, v))

\* C9 as stated: at a fixed time and shared key, changing any single
\* canonicalized field (the method, the value of a fixed header, an x-ms-
\* header, the path, a query parameter) changes the string to sign: no two
\* requests one such field apart have the same string to sign.
C9_Stated ==
    WithSharedKey /\ last.sts # None =>
        /\ ForHeaderChanges(last.before, LAMBDA r2, n : StsOf(r2) # Sts)
        /\ ForLineChanges(last.before, LAMBDA r2 : StsOf(r2) # Sts)

\* C9 amended: at a fixed time and shared key, two requests one canonicalized
\* field apart have different strings to sign when the field is the method,
\* the path, a query parameter (as decoded), an x-ms- header other than
\* x-ms-date and (unless the version is omitted) x-ms-version, which the
\* signer overwrites, or a fixed header whose line differs: an absent fixed
\* header and an empty one give the same line, and so do Content-Length 0,
\* empty and absent.  In exactly those excepted cases the strings are equal.
C9_SingleFieldSensitivity ==
    WithSharedKey /\ last.sts # None =>
        /\ ForHeaderChanges(last.before,
                            LAMBDA r2, n : Unseen(last.before, r2, n) <=> StsOf(r2) = Sts)
        /\ ForLineChanges(last.before, LAMBDA r2 : StsOf(r2) # Sts)

\* A signed request with a query and an x-ms- header of its own: its Range
\* and its x-ms-a can be changed, and are seen; its Content-Length can be set
\* to 0, and is not.
C9_Witness ==
    /\ SignedWithKey
    /\ last.before.query # << >>
    /\ X_MS_A \in DOMAIN last.before.headers
    /\ StsOf(WithHeader(last.before, X_MS_A, None)) # Sts
    /\ StsOf(WithHeader(last.before, RANGE, Some(<< "0" >>))) # Sts
    /\ StsOf(WithParam(last.before, << "a" >>, None)) # Sts
    /\ CONTENT_LENGTH \notin DOMAIN last.before.headers
    /\ StsOf(WithHeader(last.before, CONTENT_LENGTH, Some(<< "0" >>))) = Sts

-----------------------------------------------------------------------------
(* A secret that is not base64.                                            *)

\* C10 as stated: sign with a SharedKey credential whose secret cannot be
\* base64-decoded returns a CryptoFailure error to the caller (it neither
\* aborts nor signs with a wrong key) and leaves the request untouched.
C10_Stated ==
    /\ WithSharedKey
    /\ last.op = "sign"
    /\ Buildable(last.before)
    /\ ~Base64Valid(last.cred[3])
    => /\ Returned("CryptoFailure")
       /\ req = last.before

=============================================================================
